---- MODULE Spec2Model ----
(***************************************************************************)
(* Model of generator.py: the tag-dispatched XML-to-component renderer.    *)
(*                                                                         *)
(* Representation.                                                         *)
(*  - A Python str that the code manipulates (element text, attribute      *)
(*    values, labels, hrefs) is a sequence of one-character strings.       *)
(*  - A tag name is only ever compared, so it is a TLA+ string.            *)
(*  - None is NoneText (for a text) and NoneTag (for a class's tag): both  *)
(*    hold a "<", which no XML name or modelled character contains.        *)
(*  - An Element is [id, tag, text, attrib, children]; id stands for the   *)
(*    identity of the Python object among its siblings.                    *)
(*  - A component (of html or dbc) is [type, text, href, value, props,    *)
(*    children]; props lists the constant keyword arguments.               *)
(*  - A call that may raise returns [err, node, log]: err is "" or the     *)
(*    exception's name, log is what was printed until then.                *)
(***************************************************************************)
EXTENDS Integers, Sequences, FiniteSets, TLC

VARIABLES myroot, pc, idx, content, stdout, layout, error

vars == <<myroot, pc, idx, content, stdout, layout, error>>

(* ------------------------------ bounds -------------------------------- *)
MaxChildren == 3
MaxTop == 2
MaxTextLen == 4

(* --------------------------- Python strings --------------------------- *)
Char == {"a", "1", ";", " "}
NoneText == <<"<None>">>
NoneTag == "<None>"

RECURSIVE lstrip(_)
lstrip(s) ==
    IF s # <<>> /\ Head(s) = " " THEN lstrip(Tail(s)) ELSE s

RECURSIVE rstrip(_)
rstrip(s) ==
    IF s # <<>> /\ s[Len(s)] = " " THEN rstrip(SubSeq(s, 1, Len(s) - 1)) ELSE s

strip(s) == rstrip(lstrip(s))

RECURSIVE split(_, _)
split(s, sep) ==
    IF \A i \in 1..Len(s) : s[i] # sep
    THEN <<s>>
    ELSE LET k == CHOOSE i \in 1..Len(s) :
                      s[i] = sep /\ \A j \in 1..(i - 1) : s[j] # sep
         IN  <<SubSeq(s, 1, k - 1)>> \o split(SubSeq(s, k + 1, Len(s)), sep)

IsDigits(s) == s # <<>> /\ \A i \in 1..Len(s) : s[i] = "1"

RECURSIVE int(_)
int(s) ==
    IF s = <<>> THEN 0 ELSE 10 * int(SubSeq(s, 1, Len(s) - 1)) + 1

capitalize(tag) ==
    CASE tag = "number" -> <<"N", "u", "m", "b", "e", "r">>
      [] tag = "email" -> <<"E", "m", "a", "i", "l">>
      [] tag = "address" -> <<"A", "d", "d", "r", "e", "s", "s">>
      [] OTHER -> <<"?">>

(* ----------------------------- components ----------------------------- *)
Component(type, text, href, props, children) ==
    [type |-> type, text |-> text, href |-> href, value |-> -1,
     props |-> props, children |-> children]

NoComponent == Component("None", NoneText, NoneText, "", <<>>)

Placeholder == Component("P", NoneText, NoneText, "", <<>>)

Separator == Component("Hr", NoneText, NoneText, "className=my-2", <<>>)

Ok(node, log) == [err |-> "", node |-> node, log |-> log]

Raise(exc, log) == [err |-> exc, node |-> NoComponent, log |-> log]

(* --------------------------- handler classes -------------------------- *)
(* A class is [name, tag, columns, prefix, parse]: parse names the class   *)
(* whose parse method the class inherits; columns and prefix are 0 and     *)
(* the empty string for a class that has no such attribute.                *)
Class(name, tag, columns, prefix, parse) ==
    [name |-> name, tag |-> tag, columns |-> columns, prefix |-> prefix,
     parse |-> parse]

DefaultParser == Class("DefaultParser", NoneTag, 1, <<>>, "DefaultParser")

TextParser == Class("TextParser", "text", 0, <<>>, "TextParser")

TimeParser == Class("TimeParser", "time", 0, <<>>, "TextParser")

DateParser == Class("DateParser", "date", 0, <<>>, "TextParser")

HeadingParser == Class("HeadingParser", "head", 0, <<>>, "HeadingParser")

SubHeadingParser ==
    Class("SubHeadingParser", "subhead", 0, <<>>, "SubHeadingParser")

TagParser == Class("TagParser", "tag", 0, <<>>, "TagParser")

LinkParser == Class("LinkParser", "link", 0, <<>>, "LinkParser")

CurrentParser == Class("CurrentParser", "current", 0, <<>>, "CurrentParser")

ProgressParser ==
    Class("ProgressParser", "progress", 0, <<>>, "ProgressParser")

ImageParser == Class("ImageParser", "image", 0, <<>>, "ImageParser")

PhoneParser ==
    Class("PhoneParser", "number", 0, <<"t", "e", "l", ":">>, "ContactParser")

EmailParser ==
    Class("EmailParser", "email", 0,
          <<"m", "a", "i", "l", "t", "o", ":">>, "ContactParser")

AddressParser == Class("AddressParser", "address", 0, <<>>, "ContactParser")

JobParser == Class("JobParser", "job", 0, <<>>, "NiceCard")

MeritParser == Class("MeritParser", "merit", 0, <<>>, "NiceCard")

SkillParser == Class("SkillParser", "skill", 0, <<>>, "NiceCard")

AuthorParser == Class("AuthorParser", "author", 0, <<>>, "AuthorParser")

(* Variant: the jobs group declared with three columns.                    *)
JobGroupParser_columns3 ==
    Class("JobGroupParser", "jobs", 3, <<>>, "DefaultParser")

JobGroupParser == Class("JobGroupParser", "jobs", 2, <<>>, "DefaultParser")

MeritGroupParser ==
    Class("MeritGroupParser", "merits", 3, <<>>, "DefaultParser")

SkillGroupParser ==
    Class("SkillGroupParser", "skills", 4, <<>>, "DefaultParser")

PARSERS ==
    << TextParser, TimeParser, DateParser, HeadingParser, SubHeadingParser,
       TagParser, CurrentParser, LinkParser, ImageParser, PhoneParser,
       EmailParser, AddressParser, ProgressParser,
       JobParser, MeritParser, AuthorParser, SkillParser,
       JobGroupParser, MeritGroupParser, SkillGroupParser,
       DefaultParser >>

(* ------------------------------ dispatch ------------------------------ *)
RECURSIVE scan_parsers(_, _)
scan_parsers(i, element) ==
    IF i > Len(PARSERS) THEN DefaultParser
    ELSE IF PARSERS[i].tag = element.tag THEN PARSERS[i]
    ELSE scan_parsers(i + 1, element)

(* Variant: selection that also looks at the element's text.              *)
get_element_parser_by_text(element) ==
    IF element.text = NoneText THEN DefaultParser
    ELSE scan_parsers(1, element)

get_element_parser(element) == scan_parsers(1, element)

(* ----------------------------- tag filters ---------------------------- *)
(* The tags argument carries its Python type: PyStr("image") is a str,     *)
(* PyList(<<"head", "subhead">>) a list of str. Every call site passes one *)
(* of the two, so the RuntimeError of the type test is never raised.       *)
PyStr(s) == [type |-> "str", str |-> s]

PyList(l) == [type |-> "list", list |-> l]

TagIn(tag, list) == \E i \in 1..Len(list) : list[i] = tag

(* Variant: the invert flag is ignored.                                    *)
get_elements_with_tag_ignore_invert(elements, tags, invert) ==
    LET list == IF tags.type = "str" THEN <<tags.str>> ELSE tags.list
    IN  SelectSeq(elements, LAMBDA e : TagIn(e.tag, list))

get_elements_with_tag(elements, tags, invert) ==
    LET list == IF tags.type = "str" THEN <<tags.str>> ELSE tags.list
    IN  IF invert
        THEN SelectSeq(elements, LAMBDA e : ~TagIn(e.tag, list))
        ELSE SelectSeq(elements, LAMBDA e : TagIn(e.tag, list))

(* ---------------------------- leaf handlers --------------------------- *)
get_content(element) ==
    IF element.text = NoneText
    THEN [err |-> "AttributeError", val |-> <<>>]
    ELSE [err |-> "", val |-> strip(element.text)]

TextParser_parse(self, element) ==
    LET c == get_content(element)
    IN  IF c.err # "" THEN Raise(c.err, <<>>)
        ELSE Ok(Component("P", c.val, NoneText, "", <<>>), <<>>)

HeadingParser_parse(self, element) ==
    LET c == get_content(element)
    IN  IF c.err # "" THEN Raise(c.err, <<>>)
        ELSE Ok(Component("H1", c.val, NoneText, "", <<>>), <<>>)

SubHeadingParser_parse(self, element) ==
    LET c == get_content(element)
    IN  IF c.err # "" THEN Raise(c.err, <<>>)
        ELSE Ok(Component("H3", c.val, NoneText, "", <<>>), <<>>)

TagParser_parse(self, element) ==
    LET c == get_content(element)
    IN  IF c.err # "" THEN Raise(c.err, <<>>)
        ELSE Ok(Component("Badge", c.val, NoneText, "className=ms-1", <<>>),
                <<>>)

LinkBadge(heading, link) ==
    Component("Badge", heading, link,
              "external_link=True,color=primary,className=ms-1", <<>>)

(* Variant: the href is the last part, with no test of the part count.     *)
LinkParser_parse_last_part(self, element) ==
    LET c == get_content(element)
    IN  IF c.err # "" THEN Raise(c.err, <<>>)
        ELSE LET parts == split(c.val, ";")
             IN  Ok(LinkBadge(strip(parts[1]), strip(parts[Len(parts)])),
                    <<>>)

LinkParser_parse(self, element) ==
    LET c == get_content(element)
    IN  IF c.err # "" THEN Raise(c.err, <<>>)
        ELSE LET parts == split(c.val, ";")
             IN  IF Len(parts) < 2 THEN Raise("IndexError", <<>>)
                 ELSE Ok(LinkBadge(strip(parts[1]), strip(parts[2])), <<>>)

CurrentParser_parse(self, element) ==
    Ok(Component("Badge",
                 <<"C", "u", "r", "r", "e", "n", "t", " ",
                   "P", "o", "s", "i", "t", "i", "o", "n">>,
                 NoneText, "color=success", <<>>),
       <<>>)

ProgressParser_parse(self, element) ==
    LET c == get_content(element)
    IN  IF c.err # "" THEN Raise(c.err, <<>>)
        ELSE IF ~IsDigits(c.val) THEN Raise("ValueError", <<>>)
        ELSE Ok([Component("Progress", NoneText, NoneText, "", <<>>)
                    EXCEPT !.value = int(c.val)],
                <<>>)

ImageParser_parse(self, element) ==
    LET c == get_content(element)
    IN  IF c.err # "" THEN Raise(c.err, <<>>)
        ELSE Ok(Component("Card", NoneText, NoneText, "",
                  << Component("CardImg", NoneText, c.val,
                               "className=img-fluid rounded-start", <<>>) >>),
                <<>>)

ContactParser_parse(self, element) ==
    LET c == get_content(element)
    IN  IF c.err # "" THEN Raise(c.err, <<>>)
        ELSE LET label == Component("Button", capitalize(element.tag),
                                    NoneText, "outline=False,color=primary",
                                    <<>>)
                 value ==
                     IF self.prefix # <<>>
                     THEN Component("Button", c.val, self.prefix \o c.val,
                            "outline=True,color=primary,external_link=True",
                            <<>>)
                     ELSE Component("Button", c.val, NoneText,
                                    "outline=True,color=primary", <<>>)
             IN  Ok(Component("P", NoneText, NoneText, "",
                      << Component("ButtonGroup", NoneText, NoneText, "",
                                   <<label, value>>) >>),
                    <<>>)

(* ------------------------- container handlers ------------------------- *)
RECURSIVE parse_element(_)

RECURSIVE parse_list(_)
parse_list(elements) ==
    IF elements = <<>> THEN [err |-> "", nodes |-> <<>>, log |-> <<>>]
    ELSE LET h == parse_element(Head(elements))
         IN  IF h.err # ""
             THEN [err |-> h.err, nodes |-> <<>>, log |-> h.log]
             ELSE LET t == parse_list(Tail(elements))
                  IN  [err |-> t.err,
                       nodes |-> IF t.err = "" THEN <<h.node>> \o t.nodes
                                 ELSE <<>>,
                       log |-> h.log \o t.log]

parse_elements_with_tag(element, tag, invert) ==
    parse_list(get_elements_with_tag(element.children, tag, invert))

missing_elements(cols, n) == cols - (n % cols)

Col(j) == Component("Col", NoneText, NoneText, "", <<j>>)

Slice(s, i, j) == SubSeq(s, i, IF j < Len(s) THEN j ELSE Len(s))

(* Variant: no spacer after a row.                                         *)
RECURSIVE chunk_rows_no_spacer(_, _)
chunk_rows_no_spacer(items, cols) ==
    IF items = <<>> THEN <<>>
    ELSE << Component("Row", NoneText, NoneText, "",
                      [k \in 1..Len(Slice(items, 1, cols)) |-> Col(items[k])]) >>
         \o chunk_rows_no_spacer(SubSeq(items, cols + 1, Len(items)), cols)

RECURSIVE chunk_rows(_, _)
chunk_rows(items, cols) ==
    IF items = <<>> THEN <<>>
    ELSE << Component("Row", NoneText, NoneText, "",
                      [k \in 1..Len(Slice(items, 1, cols)) |-> Col(items[k])]),
            Placeholder >>
         \o chunk_rows(SubSeq(items, cols + 1, Len(items)), cols)

DefaultParser_parse(self, element) ==
    LET printed == <<element.tag>>
        kids == parse_list(element.children)
    IN  IF kids.err # "" THEN Raise(kids.err, printed \o kids.log)
        ELSE LET cols == self.columns
                 padded == kids.nodes \o
                     [k \in 1..missing_elements(cols, Len(kids.nodes))
                        |-> Placeholder]
                 heading ==
                     IF "heading" \in DOMAIN element.attrib
                     THEN << Component("H1", element.attrib["heading"],
                                       NoneText, "", <<>>) >>
                     ELSE <<>>
             IN  Ok(Component("Div", NoneText, NoneText, "",
                              heading \o chunk_rows(padded, cols)),
                    printed \o kids.log)

(* Variant: the separator is appended unconditionally.                     *)
card_body_items_always_hr(card_date, card_body) ==
    card_date \o <<Separator>> \o card_body

card_body_items(card_date, card_body) ==
    (IF card_date # <<>> THEN card_date \o <<Separator>> ELSE card_date)
    \o card_body

NiceCard_parse(self, element) ==
    LET card_head ==
            parse_elements_with_tag(element, PyList(<<"head", "subhead">>),
                                    FALSE)
        card_date ==
            parse_elements_with_tag(element,
                PyList(<<"date", "time", "current">>), FALSE)
        card_body ==
            parse_elements_with_tag(element,
                PyList(<<"head", "subhead", "date", "time", "current">>), TRUE)
    IN  IF card_head.err # "" THEN Raise(card_head.err, card_head.log)
        ELSE IF card_date.err # ""
        THEN Raise(card_date.err, card_head.log \o card_date.log)
        ELSE IF card_body.err # ""
        THEN Raise(card_body.err,
                   card_head.log \o card_date.log \o card_body.log)
        ELSE Ok(Component("Card", NoneText, NoneText, "",
                  << Component("CardHeader", NoneText, NoneText, "",
                               card_head.nodes),
                     Component("CardBody", NoneText, NoneText, "",
                               card_body_items(card_date.nodes,
                                               card_body.nodes)) >>),
                card_head.log \o card_date.log \o card_body.log)

(* Variant: the text and contact columns exchanged.                        *)
author_card_swapped(card_head, card_image, card_contact, card_body) ==
    Component("Card", NoneText, NoneText, "",
      << Component("Row", NoneText, NoneText, "",
           << Component("Col", NoneText, NoneText, "width=4", card_image),
              Component("Col", NoneText, NoneText, "",
                card_head \o
                << Separator,
                   Component("Row", NoneText, NoneText, "",
                     << Component("Col", NoneText, NoneText, "",
                                  card_contact),
                        Component("Col", NoneText, NoneText, "",
                                  card_body) >>) >>) >>) >>)

author_card(card_head, card_image, card_contact, card_body) ==
    Component("Card", NoneText, NoneText, "",
      << Component("Row", NoneText, NoneText, "",
           << Component("Col", NoneText, NoneText, "width=4", card_image),
              Component("Col", NoneText, NoneText, "",
                card_head \o
                << Separator,
                   Component("Row", NoneText, NoneText, "",
                     << Component("Col", NoneText, NoneText, "", card_body),
                        Component("Col", NoneText, NoneText, "",
                                  card_contact) >>) >>) >>) >>)

AuthorParser_parse(self, element) ==
    LET card_head ==
            parse_elements_with_tag(element, PyList(<<"head", "subhead">>),
                                    FALSE)
        card_image == parse_elements_with_tag(element, PyStr("image"), FALSE)
        card_contact ==
            parse_elements_with_tag(element,
                PyList(<<"address", "email", "number">>), FALSE)
        card_body == parse_elements_with_tag(element, PyStr("text"), FALSE)
    IN  IF card_head.err # "" THEN Raise(card_head.err, card_head.log)
        ELSE IF card_image.err # ""
        THEN Raise(card_image.err, card_head.log \o card_image.log)
        ELSE IF card_contact.err # ""
        THEN Raise(card_contact.err,
                   card_head.log \o card_image.log \o card_contact.log)
        ELSE IF card_body.err # ""
        THEN Raise(card_body.err,
                   card_head.log \o card_image.log \o card_contact.log
                   \o card_body.log)
        ELSE Ok(author_card(card_head.nodes, card_image.nodes,
                            card_contact.nodes, card_body.nodes),
                card_head.log \o card_image.log \o card_contact.log
                \o card_body.log)

parse_element(element) ==
    LET parser == get_element_parser(element)
    IN  CASE parser.parse = "DefaultParser" ->
                 DefaultParser_parse(parser, element)
          [] parser.parse = "TextParser" -> TextParser_parse(parser, element)
          [] parser.parse = "HeadingParser" ->
                 HeadingParser_parse(parser, element)
          [] parser.parse = "SubHeadingParser" ->
                 SubHeadingParser_parse(parser, element)
          [] parser.parse = "TagParser" -> TagParser_parse(parser, element)
          [] parser.parse = "LinkParser" -> LinkParser_parse(parser, element)
          [] parser.parse = "CurrentParser" ->
                 CurrentParser_parse(parser, element)
          [] parser.parse = "ProgressParser" ->
                 ProgressParser_parse(parser, element)
          [] parser.parse = "ImageParser" -> ImageParser_parse(parser, element)
          [] parser.parse = "ContactParser" ->
                 ContactParser_parse(parser, element)
          [] parser.parse = "NiceCard" -> NiceCard_parse(parser, element)
          [] parser.parse = "AuthorParser" ->
                 AuthorParser_parse(parser, element)

(* ------------------------- bounded input documents -------------------- *)
NoAttrib == [a \in {} |-> <<>>]

WithIds(elements) ==
    [i \in 1..Len(elements) |-> [elements[i] EXCEPT !.id = i]]

Element(tag, text, attrib, children) ==
    [id |-> 0, tag |-> tag, text |-> text, attrib |-> attrib,
     children |-> WithIds(children)]

Leaf(tag, text) == Element(tag, text, NoAttrib, <<>>)

SeqsUpTo(S, n) == UNION {[1..k -> S] : k \in 0..n}

Texts == SeqsUpTo(Char, MaxTextLen) \cup {NoneText}

LeafTags ==
    {"text", "time", "date", "head", "subhead", "tag", "current", "link",
     "image", "number", "email", "address", "progress"}

ContainerTags ==
    {"job", "merit", "skill", "author", "jobs", "merits", "skills", "section"}

Attribs ==
    { NoAttrib,
      [a \in {"heading"} |-> <<"a">>],
      [a \in {"columns"} |-> <<"3">>],
      [a \in {"heading", "columns"} |->
          IF a = "heading" THEN <<"a">> ELSE <<"3">>] }

ChildPool ==
    { Leaf("head", <<"a">>), Leaf("subhead", <<"a">>), Leaf("date", <<"1">>),
      Leaf("current", NoneText), Leaf("text", <<"a">>),
      Leaf("image", <<"a">>), Leaf("email", <<"a">>) }

(* One top-level element: a container over the child pool.                 *)
ContainerDocs ==
    { << Element(t, NoneText, at, kids) >> :
        t \in ContainerTags, at \in Attribs,
        kids \in SeqsUpTo(ChildPool, MaxChildren) }

(* One top-level leaf, over every text.                                    *)
TextDocs ==
    { << Leaf(t, x) >> : t \in {"link", "progress", "number"}, x \in Texts }

LeafDocs ==
    { << Leaf(t, x) >> :
        t \in LeafTags \cup {"note"}, x \in {NoneText, <<"a">>, <<" ", "1">>} }

GoodLink == Leaf("link", <<"a", ";", "1">>)

BadLink == Leaf("link", <<"a">>)

EmptyJob == Element("job", NoneText, NoAttrib, <<>>)

TopPool ==
    { GoodLink, BadLink,
      Element("jobs", NoneText, NoAttrib, <<EmptyJob, EmptyJob, EmptyJob>>),
      Element("section", NoneText, NoAttrib,
              << Leaf("note", <<"a">>),
                 Element("job", NoneText, NoAttrib, <<BadLink>>) >>),
      Element("section", NoneText, NoAttrib,
              << Element("skills", NoneText, NoAttrib,
                         <<Leaf("progress", <<"1">>)>>) >>),
      Element("author", NoneText, NoAttrib,
              << Leaf("image", <<"a">>), Leaf("head", <<"a">>),
                 Leaf("email", <<"1">>), Leaf("text", <<"a", " ", "1">>),
                 Leaf("note", <<"a">>) >>),
      Leaf("note", <<"a">>) }

(* Several top-level elements.                                             *)
PageDocs == { WithIds(d) : d \in SeqsUpTo(TopPool, MaxTop) }

Documents == ContainerDocs \cup TextDocs \cup LeafDocs \cup PageDocs

(* --------------------- module top level (258-273) --------------------- *)
Init ==
    /\ myroot \in Documents
    /\ pc = "render"
    /\ idx = 0
    /\ content = <<>>
    /\ stdout = <<>>
    /\ layout = NoComponent
    /\ error = ""

(* One iteration of "for x in myroot" that returns.                        *)
RenderChild ==
    /\ pc = "render"
    /\ idx < Len(myroot)
    /\ LET r == parse_element(myroot[idx + 1])
       IN  /\ r.err = ""
           /\ content' = content \o <<r.node, Placeholder>>
           /\ stdout' = stdout \o r.log
    /\ idx' = idx + 1
    /\ UNCHANGED <<myroot, pc, layout, error>>

(* One iteration whose parse_element raises: nothing catches it, the       *)
(* script ends before app.layout is assigned.                              *)
RenderRaises ==
    /\ pc = "render"
    /\ idx < Len(myroot)
    /\ LET r == parse_element(myroot[idx + 1])
       IN  /\ r.err # ""
           /\ error' = r.err
           /\ stdout' = stdout \o r.log
    /\ pc' = "crashed"
    /\ UNCHANGED <<myroot, idx, content, layout>>

(* After the loop: app.layout = html.Div(content, style=CONTENT_STYLE).    *)
SetLayout ==
    /\ pc = "render"
    /\ idx = Len(myroot)
    /\ layout' = Component("Div", NoneText, NoneText, "style=CONTENT_STYLE",
                           content)
    /\ pc' = "serving"
    /\ UNCHANGED <<myroot, idx, content, stdout, error>>

Next == RenderChild \/ RenderRaises \/ SetLayout

Spec == Init /\ [][Next]_vars

(* ====================== properties of the renderer ==================== *)
(* The output of the k-th top-level element, once the loop has passed it.  *)
Out(k) == content[2 * k - 1]

Registered(tag) == \E i \in 1..Len(PARSERS) : PARSERS[i].tag = tag

RECURSIVE Descendants(_)
Descendants(e) ==
    {e} \cup UNION {Descendants(e.children[i]) : i \in 1..Len(e.children)}

AllElements == UNION {Descendants(myroot[k]) : k \in 1..Len(myroot)}

Renders(elements) ==
    [i \in 1..Len(elements) |-> parse_element(elements[i]).node]

WithTagIn(elements, tagset) == SelectSeq(elements, LAMBDA e : e.tag \in tagset)

Ids(elements) == {elements[i].id : i \in 1..Len(elements)}

RECURSIVE Flatten(_)
Flatten(seqs) == IF seqs = <<>> THEN <<>> ELSE Head(seqs) \o Flatten(Tail(seqs))

IsDefaultRendered(k) ==
    k \in 1..idx /\ get_element_parser(myroot[k]).parse = "DefaultParser"

IsCard(k) == k \in 1..idx /\ myroot[k].tag \in {"job", "merit", "skill"}

(* The rows of a Default container and the items inside their columns.     *)
RowsOf(node) == SelectSeq(node.children, LAMBDA c : c.type = "Row")

ItemsOf(node) ==
    Flatten([r \in 1..Len(RowsOf(node)) |->
               [c \in 1..Len(RowsOf(node)[r].children) |->
                  RowsOf(node)[r].children[c].children[1]]])

PlaceholdersIn(node) ==
    Cardinality({i \in 1..Len(ItemsOf(node)) : ItemsOf(node)[i] = Placeholder})

(* C1: handler selection returns the first registered class whose tag      *)
(* equals the element's tag, the Default handler when none does, and is    *)
(* the same for any element carrying that tag, whatever its text,          *)
(* attributes or children.                                                 *)
C1_HandlerSelection ==
    \A e \in AllElements :
        LET p == get_element_parser(e)
        IN  /\ Registered(e.tag) =>
                   \E i \in 1..Len(PARSERS) :
                       /\ PARSERS[i].tag = e.tag
                       /\ \A j \in 1..(i - 1) : PARSERS[j].tag # e.tag
                       /\ p = PARSERS[i]
            /\ ~Registered(e.tag) => p = DefaultParser
            /\ p = get_element_parser(Leaf(e.tag, <<>>))
            /\ \A f \in AllElements :
                   f.tag = e.tag => get_element_parser(f) = p

C1_Witness ==
    /\ idx >= 1
    /\ \E e, f, g \in AllElements :
           /\ e.tag = f.tag /\ e.text # f.text
           /\ ~Registered(g.tag)
           /\ g.children # <<>>

(* C2 (as claimed): a Default or group container with N children and       *)
(* column count C receives (C - N mod C) mod C placeholders, and its       *)
(* padded item count is a multiple of C.                                   *)
C2_PaddingAsClaimed ==
    \A k \in 1..idx :
        IsDefaultRendered(k) =>
            LET C == get_element_parser(myroot[k]).columns
                N == Len(myroot[k].children)
            IN  /\ PlaceholdersIn(Out(k)) = (C - (N % C)) % C
                /\ Len(ItemsOf(Out(k))) % C = 0

(* C3: the three buckets of a card element are pairwise disjoint and       *)
(* together hold every child exactly once, and the card renders as many    *)
(* children as the element has.                                            *)
C3_CardPartition ==
    \A k \in 1..idx :
        IsCard(k) =>
            LET kids == myroot[k].children
                H == get_elements_with_tag(kids,
                         PyList(<<"head", "subhead">>), FALSE)
                D == get_elements_with_tag(kids,
                         PyList(<<"date", "time", "current">>), FALSE)
                B == get_elements_with_tag(kids,
                         PyList(<<"head", "subhead", "date", "time",
                                  "current">>), TRUE)
                header == Out(k).children[1].children
                body == SelectSeq(Out(k).children[2].children,
                                  LAMBDA c : c # Separator)
            IN  /\ Ids(H) \cap Ids(D) = {}
                /\ Ids(H) \cap Ids(B) = {}
                /\ Ids(D) \cap Ids(B) = {}
                /\ Ids(H) \cup Ids(D) \cup Ids(B) = Ids(kids)
                /\ Len(H) + Len(D) + Len(B) = Len(kids)
                /\ Len(header) = Len(H)
                /\ Len(body) = Len(D) + Len(B)

C3_Witness ==
    \E k \in 1..idx :
        /\ IsCard(k)
        /\ \E a, b, c \in 1..Len(myroot[k].children) :
               /\ myroot[k].children[a].tag = "subhead"
               /\ myroot[k].children[b].tag = "current"
               /\ myroot[k].children[c].tag = "text"

(* ------------------------------- links -------------------------------- *)
HasSeparator(text) ==
    text # NoneText /\ \E i \in 1..Len(text) : text[i] = ";"

FirstSeparator(text) ==
    CHOOSE i \in 1..Len(text) :
        text[i] = ";" /\ \A j \in 1..(i - 1) : text[j] # ";"

BeforeFirst(text) == SubSeq(text, 1, FirstSeparator(text) - 1)

AfterFirst(text) == SubSeq(text, FirstSeparator(text) + 1, Len(text))

UpToNext(text) == IF HasSeparator(text) THEN BeforeFirst(text) ELSE text

(* The elements parse_element is called on while e is rendered: an author  *)
(* card passes over the children that fall in none of its buckets.         *)
RECURSIVE Visited(_)
Visited(e) ==
    LET kids ==
            IF e.tag = "author"
            THEN WithTagIn(e.children,
                           {"head", "subhead", "image", "text", "address",
                            "email", "number"})
            ELSE IF e.tag \in {"job", "merit", "skill"} \/ ~Registered(e.tag)
                    \/ e.tag \in {"jobs", "merits", "skills"}
            THEN e.children
            ELSE <<>>
    IN  {e} \cup UNION {Visited(kids[i]) : i \in 1..Len(kids)}

IsBadLink(e) == e.tag = "link" /\ ~HasSeparator(e.text)

(* C4: a link whose text holds ";" renders as a badge labelled with the    *)
(* trimmed text before the first ";" and pointing to the trimmed text      *)
(* between the first ";" and the next one (or the end); a link whose text  *)
(* holds no ";" raises, the error reaches the top-level loop from any      *)
(* depth, and the page then gets no content at all.                        *)
C4_LinkBadgeOrAbort ==
    /\ \A k \in 1..idx :
           myroot[k].tag = "link" =>
               /\ HasSeparator(myroot[k].text)
               /\ Out(k).type = "Badge"
               /\ Out(k).text = strip(BeforeFirst(myroot[k].text))
               /\ Out(k).href = strip(UpToNext(AfterFirst(myroot[k].text)))
    /\ \A k \in 1..idx : \A e \in Visited(myroot[k]) : ~IsBadLink(e)
    /\ (pc = "render" /\ idx < Len(myroot)
          /\ \E e \in Visited(myroot[idx + 1]) : IsBadLink(e))
       => parse_element(myroot[idx + 1]).err # ""
    /\ pc = "crashed" => (error # "" /\ layout = NoComponent)
    /\ pc = "serving" =>
           \A k \in 1..Len(myroot) : \A e \in Visited(myroot[k]) :
               ~IsBadLink(e)

C4_Witness ==
    /\ pc = "crashed"
    /\ error = "IndexError"
    /\ idx >= 1
    /\ myroot[1].tag = "link"
    /\ Out(1).text # Out(1).href
    /\ \E e \in Visited(myroot[idx + 1]) :
           IsBadLink(e) /\ e # myroot[idx + 1]

(* ---------------------------- column counts --------------------------- *)
DefaultColumns(tag) ==
    CASE tag = "jobs" -> 2
      [] tag = "merits" -> 3
      [] tag = "skills" -> 4
      [] OTHER -> 1

DigitValue(text) ==
    CASE text = <<"1">> -> 1
      [] text = <<"2">> -> 2
      [] text = <<"3">> -> 3
      [] text = <<"4">> -> 4

RowWidthIs(node, n) ==
    /\ RowsOf(node) # <<>>
    /\ \A r \in 1..Len(RowsOf(node)) : Len(RowsOf(node)[r].children) = n

(* C5 (as claimed): the column count is the element's column attribute     *)
(* when it has one, and the per-tag default otherwise.                     *)
C5_ColumnsAsClaimed ==
    \A k \in 1..idx :
        IsDefaultRendered(k) =>
            RowWidthIs(Out(k),
                IF "columns" \in DOMAIN myroot[k].attrib
                THEN DigitValue(myroot[k].attrib["columns"])
                ELSE DefaultColumns(myroot[k].tag))

(* C5 (amended): the column count is the per-tag default (2 for jobs, 3    *)
(* for merits, 4 for skills, 1 for a tag left to the plain Default         *)
(* handler) whether or not the element carries a column attribute.         *)
C5_ColumnsPerTag ==
    \A k \in 1..idx :
        IsDefaultRendered(k) =>
            RowWidthIs(Out(k), DefaultColumns(myroot[k].tag))

C5_Witness ==
    \E k \in 1..idx :
        /\ IsDefaultRendered(k)
        /\ myroot[k].tag = "jobs"
        /\ "columns" \in DOMAIN myroot[k].attrib
        /\ DigitValue(myroot[k].attrib["columns"]) # 2
        /\ Len(myroot[k].children) = 3
        /\ RowWidthIs(Out(k), 2)

(* ------------------------------- notices ------------------------------ *)
Occurrences(seq, x) == Cardinality({i \in 1..Len(seq) : seq[i] = x})

(* C6 (as claimed): the notice is printed for the elements whose tag no    *)
(* registered class carries, and for no element with a registered tag.     *)
C6_NoticeOnlyForUnknown ==
    /\ \A j \in 1..Len(stdout) : ~Registered(stdout[j])
    /\ \A k \in 1..idx :
           ~Registered(myroot[k].tag) =>
               Occurrences(stdout, myroot[k].tag) >= 1

(* ------------------------- default container -------------------------- *)
(* C7: a Default or group container is one Div: the heading first exactly  *)
(* when the element has a heading attribute, then rows of exactly C        *)
(* column-wrapped items, each followed by one spacer, holding the rendered *)
(* children in document order and then only placeholders; a jobs group of  *)
(* three children makes two rows.                                          *)
C7_DefaultLayout ==
    \A k \in 1..idx :
        IsDefaultRendered(k) =>
            LET e == myroot[k]
                C == get_element_parser(e).columns
                out == Out(k)
                hasHeading == "heading" \in DOMAIN e.attrib
                body == IF hasHeading THEN Tail(out.children)
                        ELSE out.children
                kids == Renders(e.children)
                items == ItemsOf(out)
            IN  /\ out.type = "Div"
                /\ out.children # <<>>
                /\ hasHeading <=> out.children[1].type = "H1"
                /\ hasHeading => out.children[1].text = e.attrib["heading"]
                /\ Len(body) % 2 = 0
                /\ \A r \in 1..(Len(body) \div 2) :
                       /\ body[2 * r - 1].type = "Row"
                       /\ Len(body[2 * r - 1].children) = C
                       /\ \A c \in 1..C :
                              /\ body[2 * r - 1].children[c].type = "Col"
                              /\ Len(body[2 * r - 1].children[c].children) = 1
                       /\ body[2 * r] = Placeholder
                /\ Len(items) = C * (Len(body) \div 2)
                /\ Len(items) >= Len(kids)
                /\ \A i \in 1..Len(items) :
                       items[i] = IF i <= Len(kids) THEN kids[i]
                                  ELSE Placeholder
                /\ (e.tag = "jobs" /\ Len(kids) = 3) => Len(RowsOf(out)) = 2

C7_Witness ==
    \E k \in 1..idx :
        /\ IsDefaultRendered(k)
        /\ myroot[k].tag = "jobs"
        /\ Len(myroot[k].children) = 3
        /\ "heading" \in DOMAIN myroot[k].attrib
        /\ Len(Out(k).children) = 5

(* -------------------------------- cards ------------------------------- *)
(* C9: an author renders as a card of one row of two columns: the images,  *)
(* then the headings, one separator and a row of the texts beside the      *)
(* contacts; each child of a bucket tag is rendered once, in document      *)
(* order within its bucket, and no other child is rendered.                *)
C9_AuthorCard ==
    \A k \in 1..idx :
        myroot[k].tag = "author" =>
            LET kids == myroot[k].children
                images == Renders(WithTagIn(kids, {"image"}))
                heads == Renders(WithTagIn(kids, {"head", "subhead"}))
                texts == Renders(WithTagIn(kids, {"text"}))
                contacts ==
                    Renders(WithTagIn(kids, {"address", "email", "number"}))
                out == Out(k)
                row == out.children[1]
                left == row.children[1]
                right == row.children[2]
                inner == right.children[Len(right.children)]
            IN  /\ out.type = "Card" /\ Len(out.children) = 1
                /\ row.type = "Row" /\ Len(row.children) = 2
                /\ left.type = "Col" /\ left.children = images
                /\ right.type = "Col"
                /\ right.children = heads \o <<Separator, inner>>
                /\ inner.type = "Row" /\ Len(inner.children) = 2
                /\ inner.children[1].type = "Col"
                /\ inner.children[1].children = texts
                /\ inner.children[2].type = "Col"
                /\ inner.children[2].children = contacts
                /\ Len(images) + Len(heads) + Len(texts) + Len(contacts)
                       = Cardinality({i \in 1..Len(kids) : kids[i].tag \in
                             {"head", "subhead", "image", "text", "address",
                              "email", "number"}})

C9_Witness ==
    \E k \in 1..idx :
        /\ myroot[k].tag = "author"
        /\ \E a, b, c, d, x \in 1..Len(myroot[k].children) :
               /\ myroot[k].children[a].tag = "image"
               /\ myroot[k].children[b].tag = "head"
               /\ myroot[k].children[c].tag = "email"
               /\ myroot[k].children[d].tag = "text"
               /\ ~Registered(myroot[k].children[x].tag)
        /\ Occurrences(stdout, "note") = 0

(* C10: a job, merit or skill renders as a card of a header with the       *)
(* heading-like children and a body with the date-like children, one       *)
(* separator exactly when there is a date-like child, and the remaining    *)
(* children; each group keeps the document order.                          *)
C10_NiceCardLayout ==
    \A k \in 1..idx :
        IsCard(k) =>
            LET kids == myroot[k].children
                heads == Renders(WithTagIn(kids, {"head", "subhead"}))
                dates == Renders(WithTagIn(kids, {"date", "time", "current"}))
                rest == Renders(SelectSeq(kids, LAMBDA e : e.tag \notin
                          {"head", "subhead", "date", "time", "current"}))
                out == Out(k)
            IN  /\ out.type = "Card" /\ Len(out.children) = 2
                /\ out.children[1].type = "CardHeader"
                /\ out.children[1].children = heads
                /\ out.children[2].type = "CardBody"
                /\ out.children[2].children =
                       IF dates = <<>> THEN rest
                       ELSE dates \o <<Separator>> \o rest

C10_Witness ==
    \E k \in 1..idx :
        /\ IsCard(k)
        /\ Out(k).children[1].children # <<>>
        /\ Len(Out(k).children[2].children) = 3
        /\ Out(k).children[2].children[2] = Separator

====
